---------------------------- MODULE Spec2Model ----------------------------
(***************************************************************************)
(* Model of pcengine::CityGenerator (src/src/CityGenerator.cpp/.hpp): the  *)
(* chunk manager, the building synthesizer, the facade light placer and    *)
(* the ambient volume placer.                                              *)
(*                                                                         *)
(* Numbers.  A float v is held as the integer v*S (fixed point).  One draw *)
(* of a uniform_real_distribution<float>(0,1) advances the generator once  *)
(* and yields one of the R values 0, 1/R, .. (R-1)/R.  The std::mt19937 is *)
(* held as a 16-bit congruential state: what matters to the program is     *)
(* that seeding fixes the whole stream and every draw advances it.         *)
(* An int is a 32-bit two's complement integer.                            *)
(***************************************************************************)
EXTENDS Integers, Sequences, FiniteSets, TLC

S == 1000
R == 20

(***************************************************************************)
(* Bounds of the model.                                                    *)
(***************************************************************************)
MaxCalls == 3
MaxBuildings == 8
MaxGrid == 2
MaxInterleaved == 2

\* the arguments the calls are made with
Coords == {<<0, 0>>, <<-1, 1>>}
Seeds == {42, 7}
Densities == {0, -500}
MaxHeights == {-100000}

-----------------------------------------------------------------------------
(***************************************************************************)
(* float arithmetic                                                        *)
(***************************************************************************)
\* TRUE.  An argument of an operator is evaluated where the operator first
\* uses it; an operator that starts with Evaluated(v) has v evaluated
\* before anything else, as the program has.
Evaluated(v) == v = v

Min(a, b) == IF a < b THEN a ELSE b
Max(a, b) == IF a > b THEN a ELSE b
Abs(a) == IF a < 0 THEN 0 - a ELSE a

\* a * b on floats
Mul(a, b) == (a * b) \div S

\* a / b on floats (b # 0)
Div(a, b) == (a * S) \div b

\* the integer square root of n < 46336^2: the block of 32 it lies in, then
\* the root within the block
SqrtBlock(n) == CHOOSE c \in 0..1447 : (32 * (c + 1)) * (32 * (c + 1)) > n
SqrtIn(n, c) ==
    CHOOSE s \in (32 * c)..(32 * c + 31) : s * s <= n /\ (s + 1) * (s + 1) > n

\* std::sqrt on a float v >= 0
Sqrt(v) == SqrtIn(v * S, SqrtBlock(v * S))

\* std::exp on a float y, |y| small: range reduction by 8 and a Taylor sum
Exp(y) ==
    LET h  == y \div 8
        h2 == Mul(h, h)
        h3 == Mul(h2, h)
        h4 == Mul(h3, h)
        e1 == S + h + (h2 \div 2) + (h3 \div 6) + (h4 \div 24)
        e2 == Mul(e1, e1)
        e4 == Mul(e2, e2)
    IN  Mul(e4, e4)

Vec3(x, y, z) == <<x, y, z>>
VAdd(a, b) == <<a[1] + b[1], a[2] + b[2], a[3] + b[3]>>
VScale(a, k) == <<Mul(a[1], k), Mul(a[2], k), Mul(a[3], k)>>

-----------------------------------------------------------------------------
(***************************************************************************)
(* int arithmetic: 32-bit two's complement, by bytes (least significant    *)
(* first)                                                                  *)
(***************************************************************************)
Bytes(a) ==
    << a % 256, (a \div 256) % 256, (a \div 65536) % 256,
       (a \div 16777216) % 256 >>

FromBytes(b) ==
    (IF b[4] >= 128 THEN b[4] - 256 ELSE b[4]) * 16777216
        + b[3] * 65536 + b[2] * 256 + b[1]

\* a * b, keeping the low 32 bits
MulInt(a, b) ==
    LET x  == Bytes(a)
        y  == Bytes(b)
        c0 == x[1] * y[1]
        c1 == x[1] * y[2] + x[2] * y[1] + (c0 \div 256)
        c2 == x[1] * y[3] + x[2] * y[2] + x[3] * y[1] + (c1 \div 256)
        c3 == x[1] * y[4] + x[2] * y[3] + x[3] * y[2] + x[4] * y[1]
                 + (c2 \div 256)
    IN  FromBytes(<< c0 % 256, c1 % 256, c2 % 256, c3 % 256 >>)

\* the bit of weight w of a ^ b
XorBit(a, b, w) == IF (a \div w) % 2 # (b \div w) % 2 THEN w ELSE 0

\* a ^ b on bytes
XorBits(a, b) ==
    XorBit(a, b, 1) + XorBit(a, b, 2) + XorBit(a, b, 4) + XorBit(a, b, 8)
        + XorBit(a, b, 16) + XorBit(a, b, 32) + XorBit(a, b, 64)
        + XorBit(a, b, 128)

\* a ^ b
XorInt(a, b) ==
    LET x == Bytes(a)
        y == Bytes(b)
    IN  FromBytes([i \in 1..4 |-> XorBits(x[i], y[i])])

-----------------------------------------------------------------------------
(***************************************************************************)
(* the random stream rng_ and the three distributions drawing from it      *)
(***************************************************************************)
\* rng_.seed(seed): the state is a function of the seed alone
SeedRng(seed) ==
    LET b == Bytes(seed)
    IN  (XorBits(b[1], b[3]) + 256 * XorBits(b[2], b[4])
            + 977 * b[1] + 131 * b[3]) % 65536

\* one step of the generator
Adv(r) == (25173 * r + 13849) % 65536

\* n steps of the generator take r to (StepMul[n] * r + StepAdd[n]) % 65536
RECURSIVE MulOfSteps(_)
MulOfSteps(n) == IF n = 0 THEN 1 ELSE (25173 * MulOfSteps(n - 1)) % 65536
RECURSIVE AddOfSteps(_)
AddOfSteps(n) ==
    IF n = 0 THEN 0 ELSE (25173 * AddOfSteps(n - 1) + 13849) % 65536
StepMul == [n \in 0..11 |-> MulOfSteps(n)]
StepAdd == [n \in 0..11 |-> AddOfSteps(n)]

\* n steps of the generator (n <= 11), the product taken by bytes of r
AdvN(r, n) ==
    (StepMul[n] * (r % 256) + ((StepMul[n] * (r \div 256)) % 256) * 256
        + StepAdd[n]) % 65536

\* the number k of the value k/R drawn in state r (0 <= k < R)
Num(r) == (r * R) \div 65536

\* the float drawn in state r, in [0, 1)
Uni(r) == (Num(r) * S) \div R

\* the k-th float drawn from state r on (k >= 1), and its number
Draw(r, k) == Uni(AdvN(r, k))
DrawNum(r, k) == Num(AdvN(r, k))

-----------------------------------------------------------------------------
(***************************************************************************)
(* Building::parts, a std::vector<BuildingPart> under construction.        *)
(* c.parts is the content, c.cap the capacity and c.epoch the number of    *)
(* reallocations so far; c.rng is rng_; c.stale records that a part was    *)
(* read through a reference taken before a reallocation.                   *)
(***************************************************************************)
Part(position, size, color, detailLevel) ==
    [position |-> position, size |-> size, color |-> color,
     detailLevel |-> detailLevel]

\* what a read of freed storage yields when it does not yield the old bytes
GarbagePart == Part(<<0, 0, 0>>, <<0, 0, 0>>, <<0, 0, 0>>, 0)

\* outcomes of a read through a dangling reference
UBOutcomes == {"stale", "garbage"}

\* capacity after a push_back into a full vector
GrowCap(cap) == Max(1, 2 * cap)

\* building.parts.push_back(p)
PushPart(c, p) ==
    [parts |-> Append(c.parts, p),
     cap   |-> IF Len(c.parts) = c.cap THEN GrowCap(c.cap) ELSE c.cap,
     epoch |-> IF Len(c.parts) = c.cap THEN c.epoch + 1 ELSE c.epoch,
     rng   |-> c.rng,
     stale |-> c.stale]

\* a BuildingPart& naming a local object
LocalRef(p) == [local |-> TRUE, val |-> p, idx |-> 0, epoch |-> 0]

\* the BuildingPart& building.parts[idx], taken now
PartRef(c, idx) ==
    [local |-> FALSE, val |-> GarbagePart, idx |-> idx, epoch |-> c.epoch]

Dangling(c, ref) == ~ref.local /\ ref.epoch # c.epoch

\* the value read through ref
ReadParent(c, ref, ub) ==
    IF ref.local THEN ref.val
    ELSE IF ~Dangling(c, ref) \/ ub = "stale" THEN c.parts[ref.idx]
    ELSE GarbagePart

\* c after a read through ref
NoteRead(c, ref) == [c EXCEPT !.stale = @ \/ Dangling(c, ref)]

\* c after n draws
Drawn(c, n) == [c EXCEPT !.rng = AdvN(@, n)]

\* the draws of addSymmetricBranches made in state r on
DirectionChoice(r)  == Draw(r, 1)
SizeScale(r)        == 300 + Mul(Draw(r, 2), 400)
AttachmentHeight(r) == 300 + Mul(Draw(r, 3), 500)
ExtendAmount(r)     == 400 + Mul(Draw(r, 4), 600)

\* the number of draws of one call of addSymmetricBranches
PairDraws(r) == IF DirectionChoice(r) < 660 THEN 6 ELSE 7

\* the locals attachY, attachX and attachZ, from the parent P
AttachY(P, r) == P.position[2] + Mul(P.size[2], AttachmentHeight(r))
AttachX(P, r) == Mul(Mul(Draw(r, 5) - 500, P.size[1]), 600)
AttachZ(P, r) == Mul(Mul(Draw(r, 5) - 500, P.size[3]), 600)

\* the locals branchWidth, branchHeight, branchDepth, from the parent P
BranchSize(P, r) ==
    IF DirectionChoice(r) < 330
    THEN << Mul(P.size[1], SizeScale(r)), Mul(P.size[2], SizeScale(r)),
            Mul(P.size[3], ExtendAmount(r)) >>
    ELSE IF DirectionChoice(r) < 660
    THEN << Mul(P.size[1], ExtendAmount(r)), Mul(P.size[2], SizeScale(r)),
            Mul(P.size[3], SizeScale(r)) >>
    ELSE << Mul(P.size[1], 700 + Mul(Draw(r, 5), 300)),
            Mul(P.size[2], SizeScale(r)),
            Mul(P.size[3], 700 + Mul(Draw(r, 6), 300)) >>

\* building.color * (0.9f + neonDist_(rng_) * 0.2f), the last draw
BranchColor(color, r) == VScale(color, 900 + Mul(Draw(r, PairDraws(r)), 200))

\* frontBranch, rightBranch or topLeftBranch, from the parent P and the
\* locals bsize = BranchSize(P, r)
FirstBranch(P, r, bsize, detailLevel, color) ==
    IF DirectionChoice(r) < 330
    THEN Part(<< P.position[1] + AttachX(P, r),
                 AttachY(P, r) - Mul(bsize[2], 500),
                 P.position[3] + Mul(P.size[3], 500) + Mul(bsize[3], 500) >>,
              bsize, BranchColor(color, r), detailLevel)
    ELSE IF DirectionChoice(r) < 660
    THEN Part(<< P.position[1] + Mul(P.size[1], 500) + Mul(bsize[1], 500),
                 AttachY(P, r) - Mul(bsize[2], 500),
                 P.position[3] + AttachZ(P, r) >>,
              bsize, BranchColor(color, r), detailLevel)
    ELSE Part(<< P.position[1] - Mul(P.size[1], 150),
                 P.position[2] + Mul(P.size[2], 500) + Mul(bsize[2], 500),
                 P.position[3] + Mul(P.size[3], 150) >>,
              bsize, BranchColor(color, r), detailLevel)

\* a variant of SecondBranch that puts the second branch where the first
\* one is
SecondBranchCopy(P, Q, r, first, detailLevel) == first

\* backBranch, leftBranch or topRightBranch: the locals are those computed
\* from the parent P before the first push_back, Q is the parent as it
\* reads after it, first is the first branch
SecondBranch(P, Q, r, first, detailLevel) ==
    IF DirectionChoice(r) < 330
    THEN Part(<< Q.position[1] - AttachX(P, r),
                 AttachY(P, r) - Mul(first.size[2], 500),
                 Q.position[3] - Mul(Q.size[3], 500)
                     - Mul(first.size[3], 500) >>,
              first.size, first.color, detailLevel)
    ELSE IF DirectionChoice(r) < 660
    THEN Part(<< Q.position[1] - Mul(Q.size[1], 500)
                     - Mul(first.size[1], 500),
                 AttachY(P, r) - Mul(first.size[2], 500),
                 Q.position[3] - AttachZ(P, r) >>,
              first.size, first.color, detailLevel)
    ELSE Part(<< Q.position[1] + Mul(Q.size[1], 150),
                 Q.position[2] + Mul(Q.size[2], 500)
                     + Mul(first.size[2], 500),
                 Q.position[3] - Mul(Q.size[3], 150) >>,
              first.size, first.color, detailLevel)

RECURSIVE generateBranches(_, _, _, _, _, _)
RECURSIVE addSymmetricBranches(_, _, _, _, _)
RECURSIVE BranchLoop(_, _, _, _, _, _)
RECURSIVE BranchRecursion(_, _, _, _)
RECURSIVE SecondRecursion(_, _, _, _, _)
RECURSIVE PushSecond(_, _, _, _, _, _, _)
RECURSIVE PushFirst(_, _, _, _, _, _, _)

\* generateBranches(building, building.parts[branch2Idx], 2, detailLevel),
\* in the state c1 the first recursion left
SecondRecursion(c1, branch2Idx, detailLevel, color, ub) ==
    generateBranches(c1, PartRef(c1, branch2Idx), 2, detailLevel, color, ub)

\* the recursion at the end of each attachment mode
BranchRecursion(c, detailLevel, color, ub) ==
    IF Evaluated(c.rng) /\ detailLevel < 2
    THEN SecondRecursion(
             generateBranches(c, PartRef(c, Len(c.parts) - 1), 2,
                              detailLevel, color, ub),
             Len(c.parts), detailLevel, color, ub)
    ELSE c

\* the second push_back, in the state c1 after the first, and the recursion
PushSecond(c1, parent, P, r, detailLevel, color, ub) ==
    IF ~Evaluated(c1.rng) THEN c1
    ELSE BranchRecursion(
             PushPart(NoteRead(c1, parent),
                      SecondBranch(P, ReadParent(c1, parent, ub), r,
                                   c1.parts[Len(c1.parts)], detailLevel)),
             detailLevel, color, ub)

\* the first push_back, of the branch made from the parent as read, P
PushFirst(c, parent, P, r, detailLevel, color, ub) ==
    PushSecond(PushPart(Drawn(c, PairDraws(r)),
                        FirstBranch(P, r, BranchSize(P, r), detailLevel,
                                    color)),
               parent, P, r, detailLevel, color, ub)

\* a variant that gives the two branches the level after detailLevel
addSymmetricBranchesSkipLevel(c, parent, detailLevel, color, ub) ==
    PushFirst(NoteRead(c, parent), parent, ReadParent(c, parent, ub), c.rng,
              detailLevel + 1, color, ub)

addSymmetricBranches(c, parent, detailLevel, color, ub) ==
    PushFirst(NoteRead(c, parent), parent, ReadParent(c, parent, ub), c.rng,
              detailLevel, color, ub)

\* a variant that uses the table of the trunk at every depth
NumBranchPairsTrunkTable(currentDepth, branchChance) ==
    IF branchChance < 300 THEN 0
    ELSE IF branchChance < 600 THEN 1
    ELSE IF branchChance < 850 THEN 2
    ELSE 3

\* the number of sibling pairs chosen by the draw branchChance
NumBranchPairs(currentDepth, branchChance) ==
    IF currentDepth = 0
    THEN IF branchChance < 300 THEN 0
         ELSE IF branchChance < 600 THEN 1
         ELSE IF branchChance < 850 THEN 2
         ELSE 3
    ELSE IF branchChance < 600 THEN 0
         ELSE IF branchChance < 900 THEN 1
         ELSE 2

\* for (i = 0; i < numBranchPairs; ++i) addSymmetricBranches(..)
BranchLoop(c, parent, n, detailLevel, color, ub) ==
    IF ~Evaluated(c.rng) \/ n = 0 THEN c
    ELSE BranchLoop(addSymmetricBranches(c, parent, detailLevel, color, ub),
                    parent, n - 1, detailLevel, color, ub)

generateBranches(c, parent, maxDepth, currentDepth, color, ub) ==
    IF ~Evaluated(c.rng) \/ currentDepth >= maxDepth THEN c
    ELSE BranchLoop(Drawn(c, 1), parent,
                    NumBranchPairs(currentDepth, Draw(c.rng, 1)),
                    currentDepth + 1, color, ub)

-----------------------------------------------------------------------------
(***************************************************************************)
(* The generation state G threaded through one call: G.rng is rng_,        *)
(* G.buildings, G.neon and G.volumes are buildings_, neonLights_ and       *)
(* lightVolumes_, G.stale records a read through a dangling reference.     *)
(* cfg holds the configuration members of the generator.                   *)
(***************************************************************************)

\* the colour made from the draws baseGray and tint
TintedColor(baseGray, tint) ==
    IF tint < 300
    THEN <<baseGray, Mul(baseGray, 800), Mul(baseGray, 600)>>
    ELSE IF tint < 600
    THEN <<Mul(baseGray, 700), baseGray, Mul(baseGray, 800)>>
    ELSE <<Mul(baseGray, 800), Mul(baseGray, 800), baseGray>>

\* generateBuildingColor(), from state r (two draws); the colour
generateBuildingColor(r) ==
    TintedColor(100 + Mul(Draw(r, 1), 200), Draw(r, 2))

\* the height made from heightFactor
HeightOf(heightFactor, cfg) ==
    cfg.minHeight
        + Mul(Min(heightFactor, S), cfg.maxHeight - cfg.minHeight)

\* distanceFromCenter, from the two draws
DistanceFromCenter(u2, u3) ==
    Sqrt(Mul(u2 - 500, u2 - 500) + Mul(u3 - 500, u3 - 500))

\* generateHeight(baseHeight), from state r (three draws); the height
generateHeight(r, cfg) ==
    HeightOf(Mul(Exp(0 - Mul(cfg.heightDistributionLambda, Draw(r, 1))),
                 S - Mul(DistanceFromCenter(Draw(r, 2), Draw(r, 3)), 300)),
             cfg)

Light(position, color, intensity, radius, width, height, face) ==
    [position |-> position, color |-> color, intensity |-> intensity,
     radius |-> radius, width |-> width, height |-> height, face |-> face]

\* the face chosen by the draw side
FaceOf(side) ==
    IF side < 250 THEN 0 ELSE IF side < 500 THEN 1
    ELSE IF side < 750 THEN 2 ELSE 3

\* baseSize, from the draws sizeRoll and the one after it
BaseSize(sizeRoll, u) ==
    IF sizeRoll < 600 THEN 300 + Mul(u, 500)
    ELSE IF sizeRoll < 850 THEN 800 + Mul(u, 1200)
    ELSE IF sizeRoll < 950 THEN 2000 + Mul(u, 2000)
    ELSE 4000 + Mul(u, 4000)

\* a variant of ClampHeight that leaves the height as it is
NoClampHeight(width, height, maxHeight) == << width, height >>

\* the second clamp: <<light.width, light.height>>
ClampHeight(width, height, maxHeight) ==
    IF height > maxHeight
    THEN << Mul(width, Div(maxHeight, height)), maxHeight >>
    ELSE << width, height >>

\* the two clamps to the wall: <<light.width, light.height>>
ClampToWall(width, height, maxWidth, maxHeight) ==
    IF width > maxWidth
    THEN ClampHeight(maxWidth, Mul(height, Div(maxWidth, width)), maxHeight)
    ELSE ClampHeight(width, height, maxHeight)

\* the colour of a sign, from the draw colorChoice
NeonColor(colorChoice) ==
    IF colorChoice < 300 THEN <<1000, 300, 100>>
    ELSE IF colorChoice < 600 THEN <<1000, 800, 200>>
    ELSE IF colorChoice < 800 THEN <<200, 800, 1000>>
    ELSE <<800, 200, 1000>>

\* light.position, from the face and the offsets along the wall
SignPosition(partAbsPos, part, face, xOffset, yOffset) ==
    CASE face = 0 ->
            << partAbsPos[1] + xOffset, partAbsPos[2] + yOffset,
               partAbsPos[3] + Mul(part.size[3], 500) + 50 >>
      [] face = 1 ->
            << partAbsPos[1] + xOffset, partAbsPos[2] + yOffset,
               partAbsPos[3] - Mul(part.size[3], 500) - 50 >>
      [] face = 2 ->
            << partAbsPos[1] - Mul(part.size[1], 500) - 50,
               partAbsPos[2] + yOffset, partAbsPos[3] + xOffset >>
      [] face = 3 ->
            << partAbsPos[1] + Mul(part.size[1], 500) + 50,
               partAbsPos[2] + yOffset, partAbsPos[3] + xOffset >>

\* the light once its size wh = <<width, height>> is clamped
SignPlaced(r, partAbsPos, part, face, wallWidth, wallHeight, wh) ==
    Light(SignPosition(partAbsPos, part, face,
                       Mul(Draw(r, 6) - 500, wallWidth - wh[1]),
                       Mul(Draw(r, 7), wallHeight - wh[2])
                           + Mul(wh[2], 500)),
          NeonColor(Draw(r, 8)),
          500 + Mul(Draw(r, 9), 1500),
          8000 + Mul(Draw(r, 10), 12000),
          wh[1], wh[2], face)

\* the light on the wall of the given width and height
SignOnWall(r, partAbsPos, part, face, wallWidth, wallHeight, baseSize) ==
    SignPlaced(r, partAbsPos, part, face, wallWidth, wallHeight,
               ClampToWall(Mul(baseSize, 500 + Mul(Draw(r, 5), 1500)),
                           baseSize,
                           Mul(wallWidth, 800), Mul(wallHeight, 800)))

\* the light on the given part and face
SignOnPart(r, bpos, part, face) ==
    SignOnWall(r, VAdd(bpos, part.position), part, face,
               IF face < 2 THEN part.size[1] ELSE part.size[3],
               part.size[2],
               BaseSize(Draw(r, 3), Draw(r, 4)))

\* one iteration of the loop of addNeonLights: the light made for the
\* building at bpos with the given parts, from state r (ten draws)
NeonLightAt(r, bpos, parts) ==
    SignOnPart(r, bpos, parts[((DrawNum(r, 1) * Len(parts)) \div R) + 1],
               FaceOf(Draw(r, 2)))

\* for (i = 0; i < numLights; ++i) ..
RECURSIVE NeonLoop(_, _, _, _)
NeonLoop(G, n, bpos, parts) ==
    IF ~Evaluated(G.rng) \/ n = 0 \/ parts = <<>> THEN G
    ELSE NeonLoop([rng |-> AdvN(G.rng, 10),
                   buildings |-> G.buildings,
                   neon |-> Append(G.neon, NeonLightAt(G.rng, bpos, parts)),
                   volumes |-> G.volumes,
                   stale |-> G.stale,
                   samples |-> G.samples],
                  n - 1, bpos, parts)

\* a variant that places 2 + int(u * 16) lights
addNeonLightsWide(G, bpos, parts) ==
    NeonLoop([G EXCEPT !.rng = Adv(@)],
             2 + ((DrawNum(G.rng, 1) * 16) \div R), bpos, parts)

\* addNeonLights(building)
addNeonLights(G, bpos, parts) ==
    NeonLoop([G EXCEPT !.rng = Adv(@)],
             2 + ((DrawNum(G.rng, 1) * 8) \div R), bpos, parts)

\* a variant whose beam path is enabled: it appends one cone
addLightVolumesBeam(G) ==
    [G EXCEPT !.volumes =
        Append(@, [basePosition |-> << 0, 0, 0 >>, height |-> 180000,
                   baseRadius |-> 3000, color |-> << 0, 0, 0 >>,
                   intensity |-> 1000, isCone |-> TRUE])]

\* addLightVolumes(building): returns at once
addLightVolumes(G) == G

\* the size of the building, from state r (seven draws)
BuildingSize(r, cfg) ==
    << IF Draw(r, 3) > 500
       THEN Mul(2000 + Mul(Draw(r, 1), 4000), 1500 + Mul(Draw(r, 4), 2000))
       ELSE 2000 + Mul(Draw(r, 1), 4000),
       generateHeight(AdvN(r, 4), cfg),
       IF Draw(r, 3) > 500
       THEN 2000 + Mul(Draw(r, 2), 4000)
       ELSE Mul(2000 + Mul(Draw(r, 2), 4000), 1500 + Mul(Draw(r, 4), 2000))
    >>

\* the empty building.parts, with rng_ in state r
NoParts(r) ==
    [parts |-> <<>>, cap |-> 0, epoch |-> 0, rng |-> r, stale |-> FALSE]

\* the end of generateBuilding: c1 is building.parts after generateBranches
FinishBuilding(G, c1, position, size, color, r) ==
  IF ~Evaluated(c1.rng) THEN G
  ELSE
    [addLightVolumes(addNeonLights([G EXCEPT !.rng = c1.rng,
                                             !.stale = @ \/ c1.stale],
                                   position, c1.parts))
        EXCEPT !.buildings =
            Append(@, [position |-> position, size |-> size,
                       color |-> color, parts |-> c1.parts,
                       neonLights |-> <<>>,
                       heightVariation |-> Mul(Draw(r, 10), 300),
                       hasAntenna |-> Draw(r, 11) > 700])]

\* generateBuilding from the trunk on
BuildFromTrunk(G, position, trunk, ub) ==
    IF ~Evaluated(trunk.size) THEN G
    ELSE FinishBuilding(
             G,
             generateBranches(PushPart(NoParts(AdvN(G.rng, 11)), trunk),
                              LocalRef(trunk), 2, 0, trunk.color, ub),
             position, trunk.size, trunk.color, G.rng)

\* generateBuilding(gridPos), gridPos = <<x, z>>
generateBuilding(G, gridPos, cfg, ub) ==
    BuildFromTrunk(G, <<gridPos[1], 0, gridPos[2]>>,
                   Part(<<0, 0, 0>>, BuildingSize(G.rng, cfg),
                        generateBuildingColor(AdvN(G.rng, 7)), 0),
                   ub)

-----------------------------------------------------------------------------
(***************************************************************************)
(* g_volumetricConfig, at its defaults                                     *)
(***************************************************************************)
groundLightAttempts == 100
groundLightMaxCount == 20
groundLightMinClearance == 15000
groundLightMinHeight == 3000
groundLightMaxHeight == 8000
groundLightMinSize == 3000
groundLightMaxSize == 7000
groundLightMinIntensity == 8000
groundLightMaxIntensity == 20000

FLT_MAX == 2000000000

Volume(basePosition, height, baseRadius, color, intensity, isCone) ==
    [basePosition |-> basePosition, height |-> height,
     baseRadius |-> baseRadius, color |-> color, intensity |-> intensity,
     isCone |-> isCone]

\* the least and the greatest of a set of numbers
Least(s) == CHOOSE m \in s : \A y \in s : m <= y
Greatest(s) == CHOOSE m \in s : \A y \in s : m >= y

\* the city bounds over the buildings bs: <<minBounds.x, minBounds.y,
\* maxBounds.x, maxBounds.y>>
CityBounds(bs) ==
    << Min(FLT_MAX,
           Least({ bs[i].position[1] - bs[i].size[1] : i \in DOMAIN bs })),
       Min(FLT_MAX,
           Least({ bs[i].position[3] - bs[i].size[3] : i \in DOMAIN bs })),
       Max(0 - FLT_MAX,
           Greatest({ bs[i].position[1] + bs[i].size[1] : i \in DOMAIN bs })),
       Max(0 - FLT_MAX,
           Greatest({ bs[i].position[3] + bs[i].size[3] : i \in DOMAIN bs }))
    >>

\* the test of one building against the sampled point
TooClose(pos, building) ==
    /\ Abs(pos[1] - building.position[1]) - Mul(building.size[1], 500)
           < groundLightMinClearance
    /\ Abs(pos[3] - building.position[3]) - Mul(building.size[3], 500)
           < groundLightMinClearance
    /\ pos[2] < building.size[2]

\* the inner loop: is pos clear of every building of bs
IsClear(pos, bs) == \A i \in DOMAIN bs : ~TooClose(pos, bs[i])

\* volume.color, from the draw colorRoll
CubeColor(colorRoll) ==
    IF colorRoll < 200 THEN <<200, 1000, 1200>>
    ELSE IF colorRoll < 400 THEN <<1000, 300, 1000>>
    ELSE IF colorRoll < 600 THEN <<1200, 600, 200>>
    ELSE IF colorRoll < 800 THEN <<300, 500, 1300>>
    ELSE <<1000, 400, 800>>

\* the cube made at pos, from state r (four draws)
CubeAt(r, pos) ==
    Volume(pos,
           groundLightMinHeight
             + Mul(Draw(r, 1), groundLightMaxHeight - groundLightMinHeight),
           groundLightMinSize
             + Mul(Draw(r, 2), groundLightMaxSize - groundLightMinSize),
           CubeColor(Draw(r, 3)),
           groundLightMinIntensity
             + Mul(Draw(r, 4),
                   groundLightMaxIntensity - groundLightMinIntensity),
           FALSE)

\* the buildings addCubeLightVolumes looks at
CubeScope(G) == G.buildings

\* one iteration of the loop, with the point pos sampled
CubeAttempt(G, pos) ==
    IF Evaluated(pos[1]) /\ ~IsClear(pos, CubeScope(G))
    THEN [G EXCEPT !.rng = AdvN(@, 2), !.samples = @ + 1]
    ELSE [G EXCEPT !.rng = AdvN(@, 6), !.samples = @ + 1,
                   !.volumes = Append(@, CubeAt(AdvN(G.rng, 2), pos))]

\* the point sampled in state r on
SamplePos(r, bounds) ==
    << bounds[1] + Mul(Draw(r, 1), bounds[3] - bounds[1]),
       0,
       bounds[2] + Mul(Draw(r, 2), bounds[4] - bounds[2]) >>

\* iterations lo .. hi-1 of
\* for (i = 0; i < attempts && placed < groundLightMaxCount; ++i);
\* first is lightVolumes_.size() when the loop starts
RECURSIVE CubeLoop(_, _, _, _, _)
CubeLoop(G, lo, hi, first, bounds) ==
    IF \/ ~Evaluated(bounds[1])
       \/ Len(G.volumes) - first >= groundLightMaxCount
       \/ lo >= hi
    THEN G
    ELSE IF hi - lo = 1 THEN CubeAttempt(G, SamplePos(G.rng, bounds))
    ELSE CubeLoop(CubeLoop(G, lo, (lo + hi) \div 2, first, bounds),
                  (lo + hi) \div 2, hi, first, bounds)

\* a variant of addCubeLightVolumes whose loop makes one attempt more than
\* the budget
addCubeLightVolumesOverBudget(G) ==
    IF CubeScope(G) = <<>> THEN G
    ELSE CubeLoop(G, 0, groundLightAttempts + 1, Len(G.volumes),
                  CityBounds(CubeScope(G)))

\* addCubeLightVolumes()
addCubeLightVolumes(G) ==
    IF CubeScope(G) = <<>> THEN G
    ELSE CubeLoop(G, 0, groundLightAttempts, Len(G.volumes),
                  CityBounds(CubeScope(G)))

-----------------------------------------------------------------------------
(***************************************************************************)
(* the chunk manager                                                       *)
(***************************************************************************)
gridCount == 5

\* the seed of chunk (chunkX, chunkZ).  The products are int products; one
\* that does not fit an int is undefined, and is taken here as the low 32
\* bits the multiply instruction leaves (a build that traps ends the
\* program at the call and adds no state).
ChunkSeed(baseSeed, chunkX, chunkZ) ==
    XorInt(XorInt(MulInt(baseSeed, 73856093), MulInt(chunkX, 19349663)),
           MulInt(chunkZ, 83492791))

\* a variant of IsCenter without the guaranteed centre building: every
\* cell goes through the density draw
NoCenter(x, z) == FALSE

\* is the cell (x, z) of the grid always built
IsCenter(x, z) == x = 2 /\ z = 2

\* a variant of LocalCoord whose random offset is ten times too wide
\* (up to 1.5 cells either way)
LocalCoordWide(n, u, isCenter, cellSize) ==
    Mul(n * S + 500, cellSize)
        + (IF isCenter THEN 0 ELSE Mul(Mul(u - 500, cellSize), 3000))

\* localX or localZ of cell number n along its axis; u is the draw of the
\* offset
LocalCoord(n, u, isCenter, cellSize) ==
    Mul(n * S + 500, cellSize)
        + (IF isCenter THEN 0 ELSE Mul(Mul(u - 500, cellSize), 300))

\* the body of the two nested loops for the cell (x, z)
ChunkCell(G, x, z, chunkX, chunkZ, cfg, ub) ==
    IF ~IsCenter(x, z) /\ Draw(G.rng, 1) > cfg.buildingDensity
    THEN [G EXCEPT !.rng = Adv(@)]
    ELSE generateBuilding(
             [G EXCEPT !.rng = IF IsCenter(x, z) THEN @ ELSE AdvN(@, 3)],
             << chunkX * cfg.chunkSize
                  + LocalCoord(x, Draw(G.rng, 2), IsCenter(x, z),
                               cfg.chunkSize \div gridCount),
                chunkZ * cfg.chunkSize
                  + LocalCoord(z, Draw(G.rng, 3), IsCenter(x, z),
                               cfg.chunkSize \div gridCount) >>,
             cfg, ub)

\* the cells number lo .. hi-1 of the two nested loops, cell number
\* i = x * gridCount + z
RECURSIVE ChunkCells(_, _, _, _, _, _, _)
ChunkCells(G, lo, hi, chunkX, chunkZ, cfg, ub) ==
    IF ~Evaluated(G.rng) \/ lo >= hi THEN G
    ELSE IF hi - lo = 1
    THEN ChunkCell(G, lo \div gridCount, lo % gridCount, chunkX, chunkZ,
                   cfg, ub)
    ELSE ChunkCells(ChunkCells(G, lo, (lo + hi) \div 2, chunkX, chunkZ,
                               cfg, ub),
                    (lo + hi) \div 2, hi, chunkX, chunkZ, cfg, ub)

\* a variant of IndexRange that is off by one: the list start+1 .. end
IndexRangeFromOne(start, end) == [i \in 1..(end - start) |-> start + i]

\* the index list start .. end-1 of a ChunkData (indices count from 0)
IndexRange(start, end) == [i \in 1..(end - start) |-> start + i - 1]

\* the body of generateChunk after the existence check: the generation
\* state at return
GenChunk(G, chunkX, chunkZ, baseSeed, cfg, ub) ==
    addCubeLightVolumes(
        ChunkCells([G EXCEPT !.rng = SeedRng(ChunkSeed(baseSeed, chunkX,
                                                        chunkZ))],
                   0, gridCount * gridCount, chunkX, chunkZ, cfg, ub))

\* a variant of ChunkRecord whose lists start at index 0
ChunkRecordFromZero(G, G2) ==
    [buildingIndices    |-> IndexRange(0, Len(G2.buildings)),
     neonIndices        |-> IndexRange(0, Len(G2.neon)),
     lightVolumeIndices |-> IndexRange(0, Len(G2.volumes))]

\* the ChunkData stored by the call that took G to G2
ChunkRecord(G, G2) ==
    [buildingIndices    |-> IndexRange(Len(G.buildings), Len(G2.buildings)),
     neonIndices        |-> IndexRange(Len(G.neon), Len(G2.neon)),
     lightVolumeIndices |-> IndexRange(Len(G.volumes), Len(G2.volumes))]

gridSize_ == MaxGrid

\* the body of the two nested loops of generateCity for the cell (x, z)
CityCell(G, x, z, cfg, ub) ==
    IF Draw(G.rng, 1) > cfg.buildingDensity
    THEN [G EXCEPT !.rng = Adv(@)]
    ELSE generateBuilding([G EXCEPT !.rng = Adv(@)],
                          <<x * cfg.gridSpacing, z * cfg.gridSpacing>>,
                          cfg, ub)

\* the cells number lo .. hi-1 of the two nested loops of generateCity,
\* cell number i = x * gridSize_ + z
RECURSIVE CityCells(_, _, _, _, _)
CityCells(G, lo, hi, cfg, ub) ==
    IF ~Evaluated(G.rng) \/ lo >= hi THEN G
    ELSE IF hi - lo = 1
    THEN CityCell(G, lo \div gridSize_, lo % gridSize_, cfg, ub)
    ELSE CityCells(CityCells(G, lo, (lo + hi) \div 2, cfg, ub),
                   (lo + hi) \div 2, hi, cfg, ub)

-----------------------------------------------------------------------------
(***************************************************************************)
(* The generator object and the calls made on it.                          *)
(***************************************************************************)
VARIABLES
    buildings_,        \* std::vector<Building>
    neonLights_,       \* std::vector<NeonLight>
    lightVolumes_,     \* std::vector<LightVolume>
    chunkData_,        \* std::map<std::pair<int,int>, ChunkData>
    rng_,              \* std::mt19937
    buildingDensity_,  \* float
    maxHeight_,        \* float
    made,      \* per record: the entries its generateChunk call appended,
               \* with the arguments and configuration of that call
    fresh,     \* per record: what a newly constructed generator with the
               \* same configuration makes of the same generateChunk call
    last,      \* the last call: its name and arguments, whether a record
               \* existed at entry, the array lengths and keys at entry
    calls,     \* the number of calls made
    running    \* per caller: where its generateChunk call stands, with the
               \* locals of the call

vars == << buildings_, neonLights_, lightVolumes_, chunkData_, rng_,
           buildingDensity_, maxHeight_, made, fresh, last, calls,
           running >>

defaultMaxHeight == 50000
minHeight_ == 10000
heightDistributionLambda_ == 2000
gridSpacing_ == 4000
chunkSize_ == 50000
defaultDensity == 700
ctorSeed == 42

\* the configuration members read by the generation
Config ==
    [buildingDensity |-> buildingDensity_, maxHeight |-> maxHeight_,
     minHeight |-> minHeight_,
     heightDistributionLambda |-> heightDistributionLambda_,
     gridSpacing |-> gridSpacing_, chunkSize |-> chunkSize_]

\* the members the generation reads and writes, as they are now
Current ==
    [rng |-> rng_, buildings |-> buildings_, neon |-> neonLights_,
     volumes |-> lightVolumes_, stale |-> FALSE, samples |-> 0]

\* the same members of a generator just constructed
Constructed ==
    [rng |-> SeedRng(ctorSeed), buildings |-> <<>>, neon |-> <<>>,
     volumes |-> <<>>, stale |-> FALSE, samples |-> 0]

NoChunks == [k \in {} |-> 0]

\* a variant of ChunkExists that never finds a record
NeverExists(data, chunkKey) == FALSE

\* chunkData_.find(chunkKey) != chunkData_.end()
ChunkExists(data, chunkKey) == chunkKey \in DOMAIN data

\* a variant of StoreChunk that drops the records of the other chunks
StoreOnlyChunk(data, chunkKey, chunkData) ==
    [k \in {chunkKey} |-> chunkData]

\* chunkData_[chunkKey] = chunkData
StoreChunk(data, chunkKey, chunkData) ==
    [k \in DOMAIN data \cup {chunkKey} |->
        IF k = chunkKey THEN chunkData ELSE data[k]]

\* variants of EraseChunk: one that erases nothing, one that erases every
\* record, one that erases every record when chunkKey has none
KeepChunk(data, chunkKey) == data

EraseAllChunks(data, chunkKey) == NoChunks

EraseOrClear(data, chunkKey) ==
    IF chunkKey \in DOMAIN data
    THEN [k \in DOMAIN data \ {chunkKey} |-> data[k]]
    ELSE NoChunks

\* chunkData_.erase(chunkKey)
EraseChunk(data, chunkKey) ==
    [k \in DOMAIN data \ {chunkKey} |-> data[k]]

\* the entries with index >= start (indices count from 0)
FromIndex(seq, start) == SubSeq(seq, start + 1, Len(seq))

\* the entries a call appended, between the generation states G and G2
Appended(G, G2, baseSeed, cfg) ==
    [buildings |-> FromIndex(G2.buildings, Len(G.buildings)),
     neon      |-> FromIndex(G2.neon, Len(G.neon)),
     volumes   |-> FromIndex(G2.volumes, Len(G.volumes)),
     seed |-> baseSeed, cfg |-> cfg, stale |-> G2.stale,
     samples |-> G2.samples]

Call(op, key, seed, existed) ==
    [op |-> op, key |-> key, seed |-> seed, existed |-> existed,
     nb |-> Len(buildings_), nn |-> Len(neonLights_),
     nv |-> Len(lightVolumes_), keys |-> DOMAIN chunkData_]

NoKey == <<>>

\* the callers of the generator
Threads == {1, 2}

\* a caller that is in no call
Idle == [phase |-> "idle", key |-> NoKey, seed |-> 0, nb |-> 0, nn |-> 0,
         nv |-> 0, stale |-> FALSE]

Init ==
    /\ buildings_ = <<>>
    /\ neonLights_ = <<>>
    /\ lightVolumes_ = <<>>
    /\ chunkData_ = NoChunks
    /\ rng_ = SeedRng(ctorSeed)
    /\ buildingDensity_ = defaultDensity
    /\ maxHeight_ = defaultMaxHeight
    /\ made = NoChunks
    /\ fresh = NoChunks
    /\ last = [op |-> "constructor", key |-> NoKey, seed |-> ctorSeed,
               existed |-> FALSE, nb |-> 0, nn |-> 0, nv |-> 0, keys |-> {}]
    /\ calls = 0
    /\ running = [t \in Threads |-> Idle]

generateChunk(chunkX, chunkZ, baseSeed) ==
    LET chunkKey == <<chunkX, chunkZ>>
    IN  /\ calls < MaxCalls
        /\ Len(buildings_) <= MaxBuildings
        /\ calls' = calls + 1
        /\ last' = Call("generateChunk", chunkKey, baseSeed,
                        chunkKey \in DOMAIN chunkData_)
        /\ UNCHANGED << buildingDensity_, maxHeight_, running >>
        /\ IF ChunkExists(chunkData_, chunkKey)
           THEN UNCHANGED << buildings_, neonLights_, lightVolumes_,
                             chunkData_, rng_, made, fresh >>
           ELSE LET outcomes == { GenChunk(Current, chunkX, chunkZ, baseSeed,
                                           Config, ub) : ub \in UBOutcomes }
                    references ==
                        { Appended(Constructed,
                                   GenChunk(Constructed, chunkX, chunkZ,
                                            baseSeed, Config, ub),
                                   baseSeed, Config) : ub \in UBOutcomes }
                IN  \E G2 \in outcomes, ref \in references :
                      /\ buildings_' = G2.buildings
                      /\ neonLights_' = G2.neon
                      /\ lightVolumes_' = G2.volumes
                      /\ rng_' = G2.rng
                      /\ chunkData_' = StoreChunk(chunkData_, chunkKey,
                                                  ChunkRecord(Current, G2))
                      /\ made' = StoreChunk(made, chunkKey,
                                   Appended(Current, G2, baseSeed, Config))
                      /\ fresh' = StoreChunk(fresh, chunkKey, ref)

removeChunk(chunkX, chunkZ) ==
    LET chunkKey == <<chunkX, chunkZ>>
    IN  /\ calls < MaxCalls
        /\ calls' = calls + 1
        /\ last' = Call("removeChunk", chunkKey, 0,
                        chunkKey \in DOMAIN chunkData_)
        /\ chunkData_' = EraseChunk(chunkData_, chunkKey)
        /\ made' = [k \in DOMAIN made \ {chunkKey} |-> made[k]]
        /\ fresh' = [k \in DOMAIN fresh \ {chunkKey} |-> fresh[k]]
        /\ UNCHANGED << buildings_, neonLights_, lightVolumes_, rng_,
                        buildingDensity_, maxHeight_, running >>

\* a variant of clearAllChunks that clears the three arrays and leaves the
\* records in place
clearAllChunksKeepingRecords ==
    /\ calls < MaxCalls
    /\ calls' = calls + 1
    /\ last' = Call("clearAllChunks", NoKey, 0, FALSE)
    /\ buildings_' = <<>>
    /\ neonLights_' = <<>>
    /\ lightVolumes_' = <<>>
    /\ UNCHANGED << chunkData_, made, fresh, rng_, buildingDensity_,
                    maxHeight_, running >>

clearAllChunks ==
    /\ calls < MaxCalls
    /\ calls' = calls + 1
    /\ last' = Call("clearAllChunks", NoKey, 0, FALSE)
    /\ buildings_' = <<>>
    /\ neonLights_' = <<>>
    /\ lightVolumes_' = <<>>
    /\ chunkData_' = NoChunks
    /\ made' = NoChunks
    /\ fresh' = NoChunks
    /\ UNCHANGED << rng_, buildingDensity_, maxHeight_, running >>

\* a variant of generateCity that clears the three arrays and leaves the
\* records of the chunks in place
generateCityKeepingRecords(seed) ==
    /\ calls < MaxCalls
    /\ calls' = calls + 1
    /\ last' = Call("generateCity", NoKey, seed, FALSE)
    /\ \E G2 \in { CityCells([Constructed EXCEPT !.rng = SeedRng(seed)],
                              0, gridSize_ * gridSize_, Config, ub) : ub \in UBOutcomes } :
          /\ buildings_' = G2.buildings
          /\ neonLights_' = G2.neon
          /\ lightVolumes_' = G2.volumes
          /\ rng_' = G2.rng
    /\ UNCHANGED << chunkData_, made, fresh, buildingDensity_, maxHeight_, running >>

generateCity(seed) ==
    /\ calls < MaxCalls
    /\ calls' = calls + 1
    /\ last' = Call("generateCity", NoKey, seed, FALSE)
    /\ \E G2 \in { CityCells([Constructed EXCEPT !.rng = SeedRng(seed)],
                              0, gridSize_ * gridSize_, Config, ub) : ub \in UBOutcomes } :
          /\ buildings_' = G2.buildings
          /\ neonLights_' = G2.neon
          /\ lightVolumes_' = G2.volumes
          /\ rng_' = G2.rng
    /\ chunkData_' = NoChunks
    /\ made' = NoChunks
    /\ fresh' = NoChunks
    /\ UNCHANGED << buildingDensity_, maxHeight_, running >>

setBuildingDensity(density) ==
    /\ calls = 0
    /\ last' = Call("setBuildingDensity", NoKey, 0, FALSE)
    /\ buildingDensity_' = density
    /\ UNCHANGED << buildings_, neonLights_, lightVolumes_, chunkData_,
                    rng_, maxHeight_, made, fresh, calls, running >>

setMaxHeight(height) ==
    /\ calls = 0
    /\ last' = Call("setMaxHeight", NoKey, 0, FALSE)
    /\ maxHeight_' = height
    /\ UNCHANGED << buildings_, neonLights_, lightVolumes_, chunkData_,
                    rng_, buildingDensity_, made, fresh, calls, running >>

Next ==
    \/ \E c \in Coords, seed \in Seeds : generateChunk(c[1], c[2], seed)
    \/ \E c \in Coords : removeChunk(c[1], c[2])
    \/ clearAllChunks
    \/ \E seed \in Seeds : generateCity(seed)
    \/ \E density \in Densities : setBuildingDensity(density)
    \/ \E height \in MaxHeights : setMaxHeight(height)

Spec == Init /\ [][Next]_vars

-----------------------------------------------------------------------------
(***************************************************************************)
(* generateChunk called by two callers on the same generator at the same   *)
(* time.  The object has no lock, so the statements of the two calls       *)
(* interleave on the members; the call is cut here into three steps: the   *)
(* existence check, the seeding and the start indices; the two nested      *)
(* loops; addCubeLightVolumes and the record.                              *)
(***************************************************************************)
\* the keys of the calls under way
RunningKeys == { running[t].key : t \in { u \in Threads : running[u].phase # "idle" } }

\* the existence check, rng_.seed(chunkSeed) and the three start indices.
\* The callers are interchangeable: a call is taken by the first caller
\* that is in none.  The two calls under way are for different chunks.
enterChunk(t, chunkX, chunkZ, baseSeed) ==
    LET chunkKey == <<chunkX, chunkZ>>
    IN  /\ running[t].phase = "idle"
        /\ \A u \in Threads : u < t => running[u].phase # "idle"
        /\ chunkKey \notin RunningKeys
        /\ calls < MaxInterleaved
        /\ Len(buildings_) <= MaxBuildings
        /\ calls' = calls + 1
        /\ last' = Call("generateChunk", chunkKey, baseSeed,
                        chunkKey \in DOMAIN chunkData_)
        /\ IF ChunkExists(chunkData_, chunkKey)
           THEN UNCHANGED << rng_, running >>
           ELSE /\ rng_' = SeedRng(ChunkSeed(baseSeed, chunkX, chunkZ))
                /\ running' = [running EXCEPT ![t] =
                       [phase |-> "seeded", key |-> chunkKey,
                        seed |-> baseSeed, nb |-> Len(buildings_),
                        nn |-> Len(neonLights_), nv |-> Len(lightVolumes_),
                        stale |-> FALSE]]
        /\ UNCHANGED << buildings_, neonLights_, lightVolumes_, chunkData_,
                        buildingDensity_, maxHeight_, made, fresh >>

\* the two nested loops over the cells of the chunk
placeBuildings(t) ==
    /\ running[t].phase = "seeded"
    /\ \E G2 \in { ChunkCells(Current, 0, gridCount * gridCount,
                              running[t].key[1], running[t].key[2],
                              Config, ub) : ub \in UBOutcomes } :
          /\ buildings_' = G2.buildings
          /\ neonLights_' = G2.neon
          /\ rng_' = G2.rng
          /\ running' = [running EXCEPT ![t].phase = "built",
                                        ![t].stale = G2.stale]
    /\ UNCHANGED << lightVolumes_, chunkData_, buildingDensity_, maxHeight_,
                    made, fresh, last, calls >>

\* the start indices of the call of caller t, as a generation state
StartOf(t) ==
    [rng |-> rng_,
     buildings |-> SubSeq(buildings_, 1, running[t].nb),
     neon |-> SubSeq(neonLights_, 1, running[t].nn),
     volumes |-> SubSeq(lightVolumes_, 1, running[t].nv),
     stale |-> FALSE, samples |-> 0]

\* addCubeLightVolumes() and the record of the chunk
finishChunk(t) ==
    /\ running[t].phase = "built"
    /\ LET G2 == addCubeLightVolumes([Current EXCEPT
                                         !.stale = running[t].stale])
       IN  /\ lightVolumes_' = G2.volumes
           /\ rng_' = G2.rng
           /\ chunkData_' = StoreChunk(chunkData_, running[t].key,
                                       ChunkRecord(StartOf(t), G2))
           /\ made' = StoreChunk(made, running[t].key,
                                 Appended(StartOf(t), G2, running[t].seed,
                                          Config))
    /\ running' = [running EXCEPT ![t] = Idle]
    /\ UNCHANGED << buildings_, neonLights_, buildingDensity_, maxHeight_,
                    fresh, last, calls >>

NextInterleaved ==
    \/ \E t \in Threads, c \in Coords, seed \in Seeds :
           enterChunk(t, c[1], c[2], seed)
    \/ \E t \in Threads : placeBuildings(t)
    \/ \E t \in Threads : finishChunk(t)
    \/ \E density \in Densities : setBuildingDensity(density)

SpecInterleaved == Init /\ [][NextInterleaved]_vars

-----------------------------------------------------------------------------
(***************************************************************************)
(* Properties of the chunk manager.                                        *)
(***************************************************************************)
\* the three lists of entries of a chunk, without the arguments of the call
Content(e) == [buildings |-> e.buildings, neon |-> e.neon,
               volumes |-> e.volumes]

\* s is the beginning of t
IsPrefix(s, t) == Len(s) <= Len(t) /\ SubSeq(t, 1, Len(s)) = s

\* list holds a, a + 1, ..., b - 1 in this order
IsRange(list, a, b) ==
    /\ Len(list) = b - a
    /\ \A i \in 1..Len(list) : list[i] = a + i - 1

\* the entries of seq at the (0-based) indices of list
Slice(seq, list) == [i \in 1..Len(list) |-> seq[list[i] + 1]]

\* every index of list is an index of seq
InBounds(seq, list) ==
    \A i \in 1..Len(list) : list[i] >= 0 /\ list[i] < Len(seq)

Arrays == << buildings_, neonLights_, lightVolumes_ >>

\* the step is a generateChunk call that created a record
Creates == last'.op = "generateChunk" /\ ~last'.existed

\* the step is a removeChunk call for a coordinate that had a record
Removes == last'.op = "removeChunk" /\ last'.existed

\* the step is a removeChunk call of the chunk that the call before it
\* created
RemovesJustMade ==
    /\ last.op = "generateChunk" /\ ~last.existed
    /\ Removes /\ last'.key = last.key

\* C1: order-independence.  The content recorded for a chunk (buildings,
\* neon lights, light volumes) is the same whatever chunks were generated
\* or removed on the instance before it, that is, the same as when the
\* chunk is the first one generated.  Stated here for the chunks whose
\* generation and whose reference generation read no part through a
\* dangling reference, so that a difference is one of the generation's
\* arithmetic alone.
C1_OrderIndependence ==
    \A k \in DOMAIN chunkData_ :
        (~made[k].stale /\ ~fresh[k].stale)
            => Content(made[k]) = Content(fresh[k])

\* C2: determinism.  The first generateChunk call on a newly constructed
\* generator produces the same entries and the same record as the same
\* call on another newly constructed generator with the same configuration.
C2_Determinism ==
    (calls = 1 /\ last.op = "generateChunk")
        => /\ Content(made[last.key]) = Content(fresh[last.key])
           /\ IsRange(chunkData_[last.key].buildingIndices, 0,
                      Len(fresh[last.key].buildings))
           /\ IsRange(chunkData_[last.key].neonIndices, 0,
                      Len(fresh[last.key].neon))
           /\ IsRange(chunkData_[last.key].lightVolumeIndices, 0,
                      Len(fresh[last.key].volumes))

\* C3: idempotence.  A generateChunk call for a coordinate that has a
\* record changes neither the three arrays nor any record, whatever its
\* seed.
C3_Idempotence ==
    [][ (last'.op = "generateChunk" /\ last'.existed)
            => UNCHANGED << buildings_, neonLights_, lightVolumes_,
                            chunkData_ >> ]_vars

\* a generateChunk call found a record that was made with another seed
C3_Witness ==
    /\ last.op = "generateChunk" /\ last.existed
    /\ last.key \in DOMAIN made
    /\ made[last.key].seed # last.seed
    /\ Len(buildings_) > 0

\* C4 as stated: generateChunk for a coordinate without a record, followed
\* immediately by removeChunk of the same coordinate, restores the lengths
\* of the three arrays and the set of records to what they were before the
\* generateChunk call.
C4_RoundTripRestoresAll ==
    [][ RemovesJustMade
            => /\ Len(buildings_') = last.nb
               /\ Len(neonLights_') = last.nn
               /\ Len(lightVolumes_') = last.nv
               /\ DOMAIN chunkData_' = last.keys ]_vars

\* C4 amended: generateChunk for a coordinate without a record, followed
\* immediately by removeChunk of the same coordinate, restores the set of
\* records and every other record, and leaves the three arrays as the
\* generateChunk call left them: the entries of the chunk stay, so the
\* buildings array is longer than before the generateChunk call.
C4_RoundTripRestoresRecords ==
    [][ RemovesJustMade
            => /\ DOMAIN chunkData_' = last.keys
               /\ \A k \in last.keys : chunkData_'[k] = chunkData_[k]
               /\ Arrays' = Arrays
               /\ Len(buildings_') > last.nb
               /\ Len(neonLights_') >= last.nn
               /\ Len(lightVolumes_') >= last.nv ]_vars

\* the second call removed the chunk that the first call generated
C4_Witness ==
    /\ calls = 2
    /\ last.op = "removeChunk" /\ last.existed
    /\ last.keys = {last.key}
    /\ chunkData_ = NoChunks
    /\ Len(buildings_) > 0

\* the arrays lose or change an entry in this step
DropsEntries ==
    \/ ~IsPrefix(buildings_, buildings_')
    \/ ~IsPrefix(neonLights_, neonLights_')
    \/ ~IsPrefix(lightVolumes_, lightVolumes_')

\* removeChunk of a coordinate with a record erases that record and
\* nothing else
RemoveFrame ==
    Removes
        => /\ DOMAIN chunkData_' = DOMAIN chunkData_ \ {last'.key}
           /\ \A k \in DOMAIN chunkData_' : chunkData_'[k] = chunkData_[k]
           /\ Arrays' = Arrays

\* C5 as stated: removeChunk of a coordinate with a record erases exactly
\* that record; the arrays (lengths and contents) and the other records
\* are unchanged; entries leave the arrays only in clearAllChunks.
C5_OnlyClearAllChunksDrops ==
    [][ /\ RemoveFrame
        /\ DropsEntries => last'.op = "clearAllChunks" ]_vars

\* C5 amended: removeChunk of a coordinate with a record erases exactly
\* that record; the arrays (lengths and contents) and the other records
\* are unchanged; entries leave the arrays only in clearAllChunks and in
\* generateCity.
C5_RemoveErasesOneRecord ==
    [][ /\ RemoveFrame
        /\ DropsEntries => last'.op \in {"clearAllChunks", "generateCity"}
      ]_vars

\* a chunk was removed while another chunk had a record
C5_Witness ==
    /\ last.op = "removeChunk" /\ last.existed
    /\ last.keys \ {last.key} # {}
    /\ DOMAIN chunkData_ = last.keys \ {last.key}
    /\ Len(buildings_) > 0

\* C6: removeChunk of a coordinate without a record changes neither the
\* three arrays nor the record map.
C6_RemoveMissing ==
    [][ (last'.op = "removeChunk" /\ ~last'.existed)
            => UNCHANGED << buildings_, neonLights_, lightVolumes_,
                            chunkData_ >> ]_vars

\* removeChunk was called for a coordinate without a record, with a
\* negative component, while another chunk had a record
C6_Witness ==
    /\ last.op = "removeChunk" /\ ~last.existed
    /\ last.key[1] < 0
    /\ chunkData_ # NoChunks
    /\ Len(buildings_) > 0

\* C7: a generateChunk call that creates a record appends to the three
\* arrays, and the three index lists of its record are the ascending
\* ranges from the length of the array at entry up to (not including) the
\* length of the array at exit, so that the entries at these indices are
\* the entries the call appended.
C7_RecordRanges ==
    [][ Creates
            => LET rec == chunkData_'[last'.key]
               IN  /\ IsPrefix(buildings_, buildings_')
                   /\ IsPrefix(neonLights_, neonLights_')
                   /\ IsPrefix(lightVolumes_, lightVolumes_')
                   /\ IsRange(rec.buildingIndices, Len(buildings_),
                              Len(buildings_'))
                   /\ IsRange(rec.neonIndices, Len(neonLights_),
                              Len(neonLights_'))
                   /\ IsRange(rec.lightVolumeIndices, Len(lightVolumes_),
                              Len(lightVolumes_'))
                   /\ Slice(buildings_', rec.buildingIndices)
                          = FromIndex(buildings_', Len(buildings_))
                   /\ Slice(neonLights_', rec.neonIndices)
                          = FromIndex(neonLights_', Len(neonLights_))
                   /\ Slice(lightVolumes_', rec.lightVolumeIndices)
                          = FromIndex(lightVolumes_', Len(lightVolumes_))
      ]_vars

\* a record was created while the three arrays held entries, and it lists
\* entries of all three kinds
C7_Witness ==
    /\ last.op = "generateChunk" /\ ~last.existed
    /\ last.nb > 0 /\ last.nn > 0 /\ last.nv > 0
    /\ Len(chunkData_[last.key].buildingIndices) > 0
    /\ Len(chunkData_[last.key].neonIndices) > 0
    /\ Len(chunkData_[last.key].lightVolumeIndices) > 0

\* C8: in every reachable state every index of every record is within the
\* bounds of its array and denotes the entry that was created while that
\* chunk was generated.
C8_IndicesValid ==
    \A k \in DOMAIN chunkData_ :
        /\ InBounds(buildings_, chunkData_[k].buildingIndices)
        /\ InBounds(neonLights_, chunkData_[k].neonIndices)
        /\ InBounds(lightVolumes_, chunkData_[k].lightVolumeIndices)
        /\ Slice(buildings_, chunkData_[k].buildingIndices)
               = made[k].buildings
        /\ Slice(neonLights_, chunkData_[k].neonIndices) = made[k].neon
        /\ Slice(lightVolumes_, chunkData_[k].lightVolumeIndices)
               = made[k].volumes

\* the only record lists entries that follow the entries of a removed
\* chunk
C8_Witness ==
    /\ Cardinality(DOMAIN chunkData_) = 1
    /\ \E k \in DOMAIN chunkData_ :
          /\ chunkData_[k].buildingIndices[1] > 0
          /\ Len(chunkData_[k].neonIndices) > 0
          /\ chunkData_[k].neonIndices[1] > 0

\* the world position of the centre cell of chunk k
CentreOf(k, cfg) ==
    << k[1] * cfg.chunkSize + Mul(2 * S + 500, cfg.chunkSize \div gridCount),
       0,
       k[2] * cfg.chunkSize + Mul(2 * S + 500, cfg.chunkSize \div gridCount) >>

\* C9: every record lists at least one building, whatever the seed and the
\* building density (density 0 and a negative density included): the
\* building of the centre cell, which is placed without a density draw.
C9_NonEmpty ==
    \A k \in DOMAIN chunkData_ :
        /\ Len(chunkData_[k].buildingIndices) >= 1
        /\ \E i \in 1..Len(made[k].buildings) :
               made[k].buildings[i].position = CentreOf(k, made[k].cfg)

\* a record made with a density that no draw passes lists one building
C9_Witness ==
    \E k \in DOMAIN chunkData_ :
        /\ made[k].cfg.buildingDensity < 0
        /\ Len(chunkData_[k].buildingIndices) = 1

\* C10: after clearAllChunks the three arrays and the record map are
\* empty, and a generateChunk call that follows it produces the same
\* entries and the same record as the same call on a newly constructed
\* generator with the same configuration.
C10_ClearThenGenerate ==
    [][ /\ last'.op = "clearAllChunks"
            => /\ Arrays' = << <<>>, <<>>, <<>> >>
               /\ chunkData_' = NoChunks
        /\ (last.op = "clearAllChunks" /\ last'.op = "generateChunk")
            => /\ Content(made'[last'.key]) = Content(fresh'[last'.key])
               /\ IsRange(chunkData_'[last'.key].buildingIndices, 0,
                          Len(fresh'[last'.key].buildings))
               /\ IsRange(chunkData_'[last'.key].neonIndices, 0,
                          Len(fresh'[last'.key].neon))
               /\ IsRange(chunkData_'[last'.key].lightVolumeIndices, 0,
                          Len(fresh'[last'.key].volumes)) ]_vars

\* the step is a call that decides whether the coordinate k has a record:
\* generateChunk or removeChunk of k, clearAllChunks or generateCity
Decides(k) ==
    \/ last'.op \in {"generateChunk", "removeChunk"} /\ last'.key = k
    \/ last'.op \in {"clearAllChunks", "generateCity"}

\* the record of k lists entries that are in the arrays, and they are the
\* entries made while k was generated
Loaded(k) ==
    /\ InBounds(buildings_, chunkData_[k].buildingIndices)
    /\ InBounds(neonLights_, chunkData_[k].neonIndices)
    /\ InBounds(lightVolumes_, chunkData_[k].lightVolumeIndices)
    /\ Len(chunkData_[k].buildingIndices) = Len(made[k].buildings)
    /\ Len(chunkData_[k].neonIndices) = Len(made[k].neon)
    /\ Len(chunkData_[k].lightVolumeIndices) = Len(made[k].volumes)

\* one step of the life of the record of k
LifecycleStep(k) ==
    /\ (last'.op = "generateChunk" /\ last'.key = k)
           => k \in DOMAIN chunkData_'
    /\ (Decides(k) /\ last'.op # "generateChunk")
           => k \notin DOMAIN chunkData_'
    /\ ~Decides(k) => (k \in DOMAIN chunkData_' <=> k \in DOMAIN chunkData_)

\* C11: chunk lifecycle.  No coordinate has a record after construction;
\* afterwards a coordinate (negative components included) has a record
\* exactly when the most recent of the calls generateChunk and removeChunk
\* of that coordinate, clearAllChunks and generateCity was generateChunk;
\* and between calls a record always lists its full content, already in the
\* arrays.
C11_Lifecycle ==
    /\ chunkData_ = NoChunks
    /\ [][ \A k \in Coords : LifecycleStep(k) ]_vars
    /\ [](\A k \in DOMAIN chunkData_ : Loaded(k))

\* the chunk with a negative coordinate is loaded while the other chunk was
\* generated and then removed
C11_Witness ==
    /\ last.op = "removeChunk" /\ last.existed
    /\ last.key = <<0, 0>>
    /\ DOMAIN chunkData_ = {<<-1, 1>>}
    /\ Len(chunkData_[<<-1, 1>>].buildingIndices) > 0

\* the sibling pairs of a parts list: the parts at 2i and 2i+1 (the trunk
\* is at 1 and the parts are pushed two at a time)
PairsOf(parts) == { i \in 1..Len(parts) : 2 * i + 1 <= Len(parts) }

\* the two parts have the same size, colour and detail level
SameShape(p, q) ==
    p.size = q.size /\ p.color = q.color /\ p.detailLevel = q.detailLevel

\* the offsets of p and q from the position of P differ by negating one
\* coordinate, the other two being equal
MirrorOne(p, q, P) ==
    \E a \in 1..3 :
        /\ p.position[a] - P.position[a] = 0 - (q.position[a] - P.position[a])
        /\ \A b \in (1..3) \ {a} : p.position[b] = q.position[b]

\* the offsets of p and q from the position of P differ by negating the
\* two horizontal coordinates x and z, the heights y being equal
MirrorTwo(p, q, P) ==
    /\ p.position[1] - P.position[1] = 0 - (q.position[1] - P.position[1])
    /\ p.position[3] - P.position[3] = 0 - (q.position[3] - P.position[3])
    /\ p.position[2] = q.position[2]

\* the parts of the list before index n that can be the parent of a part
\* of detail level d
ParentsOf(parts, n, d) ==
    { j \in 1..(n - 1) : parts[j].detailLevel = d - 1 }

WallWidth(p, face) == IF face < 2 THEN p.size[1] ELSE p.size[3]

\* the light lies in the plane of the given face of part p of building b,
\* 0.05 in front of it
OnFace(light, b, p) ==
    CASE light.face = 0 ->
            light.position[3]
                = b.position[3] + p.position[3] + Mul(p.size[3], 500) + 50
      [] light.face = 1 ->
            light.position[3]
                = b.position[3] + p.position[3] - Mul(p.size[3], 500) - 50
      [] light.face = 2 ->
            light.position[1]
                = b.position[1] + p.position[1] - Mul(p.size[1], 500) - 50
      [] light.face = 3 ->
            light.position[1]
                = b.position[1] + p.position[1] + Mul(p.size[1], 500) + 50

\* the light is within 80% of the wall of part p it looks from
WithinWall(light, p) ==
    /\ light.width <= Mul(WallWidth(p, light.face), 800)
    /\ light.height <= Mul(p.size[2], 800)

\* C12: clamp invariant.  Every neon light in the array is on a face of a
\* part of a building, and its width is at most 0.8 times the width of
\* that wall (size.x for faces 0 and 1, size.z for faces 2 and 3) and its
\* height at most 0.8 times the height of the part.
C12_Clamp ==
    \A i \in DOMAIN neonLights_ :
        \E n \in DOMAIN buildings_ :
            \E j \in DOMAIN buildings_[n].parts :
                /\ OnFace(neonLights_[i], buildings_[n],
                          buildings_[n].parts[j])
                /\ WithinWall(neonLights_[i], buildings_[n].parts[j])

\* a light was cut to the height of its wall and its width was rescaled
\* below the width the wall allows
C12_Witness ==
    \E i \in DOMAIN neonLights_ :
        \E n \in DOMAIN buildings_ :
            \E j \in DOMAIN buildings_[n].parts :
                LET light == neonLights_[i]
                    p == buildings_[n].parts[j]
                IN  /\ OnFace(light, buildings_[n], p)
                    /\ p.size[2] > 0
                    /\ light.height = Mul(p.size[2], 800)
                    /\ light.width > 0
                    /\ light.width < Mul(WallWidth(p, light.face), 800)

\* C14: every part of every building has strictly positive width, height
\* and depth, in every reachable state, also when the configuration setters
\* were called before the generation.  Stated here for the chunks whose
\* generation read no part through a dangling reference, so that a size
\* that is not positive is one the generation computed.
C14_PositiveSizesNoDangling ==
    \A k \in DOMAIN made :
        ~made[k].stale =>
            \A n \in DOMAIN made[k].buildings :
                \A j \in DOMAIN made[k].buildings[n].parts :
                    /\ made[k].buildings[n].parts[j].size[1] > 0
                    /\ made[k].buildings[n].parts[j].size[2] > 0
                    /\ made[k].buildings[n].parts[j].size[3] > 0

\* the ground position pos is inside the world-space square of chunk k for
\* the chunk size cs
InChunk(pos, k, cs) ==
    /\ k[1] * cs <= pos[1] /\ pos[1] <= (k[1] + 1) * cs
    /\ k[2] * cs <= pos[3] /\ pos[3] <= (k[2] + 1) * cs
    /\ pos[2] = 0

\* C15: every building appended by generateChunk(x, z, seed) has its
\* ground position inside [x*chunkSize, (x+1)*chunkSize] x
\* [z*chunkSize, (z+1)*chunkSize] and position.y = 0, for negative chunk
\* coordinates too, and one of them is exactly at the centre of the square.
C15_InsideChunk ==
    \A k \in DOMAIN made :
        /\ \A n \in DOMAIN made[k].buildings :
               InChunk(made[k].buildings[n].position, k,
                       made[k].cfg.chunkSize)
        /\ \E n \in DOMAIN made[k].buildings :
               /\ 2 * made[k].buildings[n].position[1]
                      = (2 * k[1] + 1) * made[k].cfg.chunkSize
               /\ 2 * made[k].buildings[n].position[3]
                      = (2 * k[2] + 1) * made[k].cfg.chunkSize

\* the chunk with the negative coordinate has a building off the centre of
\* a cell, in the row of cells along the low x edge of the chunk
C15_Witness ==
    /\ <<-1, 1>> \in DOMAIN made
    /\ \E n \in DOMAIN made[<<-1, 1>>].buildings :
           LET pos == made[<<-1, 1>>].buildings[n].position
           IN  /\ pos[1] < 0 - 40000
               /\ pos[1] # 0 - 45000

\* C16: one call of addCubeLightVolumes makes at most groundLightAttempts
\* sampling iterations and appends at most
\* min(groundLightAttempts, groundLightMaxCount) light volumes, possibly
\* none; generateChunk returns.  made[k].samples counts the iterations of
\* the call that generated chunk k.
C16_AttemptBudget ==
    \A k \in DOMAIN made :
        /\ made[k].samples <= groundLightAttempts
        /\ Len(made[k].volumes)
               <= Min(groundLightAttempts, groundLightMaxCount)
        /\ Len(made[k].volumes) <= made[k].samples

\* a chunk used up its whole budget of attempts and every sample was
\* rejected, and the call returned
C16_Witness ==
    /\ last.op = "generateChunk" /\ ~last.existed
    /\ made[last.key].samples = groundLightAttempts
    /\ made[last.key].volumes = <<>>
    /\ Len(made[last.key].buildings) > 1

\* the point pos is at least groundLightMinClearance away from the
\* footprint half-extent of building b in X or in Z
ClearOf(pos, b) ==
    \/ Abs(pos[1] - b.position[1]) - Mul(b.size[1], 500)
           >= groundLightMinClearance
    \/ Abs(pos[3] - b.position[3]) - Mul(b.size[3], 500)
           >= groundLightMinClearance

\* the buildings that were in the array when the light volumes of chunk k
\* were placed: those up to the last building of chunk k
BuildingsAtPlacement(k) ==
    SubSeq(buildings_, 1,
           chunkData_[k].buildingIndices[Len(chunkData_[k].buildingIndices)]
               + 1)

\* C17: every ground volume accepted for a chunk is clear of every building
\* that was in the buildings array when it was placed, the buildings of
\* the chunk itself included: it is at least groundLightMinClearance away
\* from the footprint half-extent of each such building in X or in Z.
C17_ClearOfBuildings ==
    \A k \in DOMAIN chunkData_ :
        \A v \in DOMAIN made[k].volumes :
            \A n \in DOMAIN BuildingsAtPlacement(k) :
                ClearOf(made[k].volumes[v].basePosition,
                        BuildingsAtPlacement(k)[n])

\* the point pos is inside the rectangle bounds = <<minX, minZ, maxX, maxZ>>
InBoundsOf(pos, bounds) ==
    /\ bounds[1] <= pos[1] /\ pos[1] <= bounds[3]
    /\ bounds[2] <= pos[3] /\ pos[3] <= bounds[4]

\* C18: every light volume listed in the record of a chunk has its base
\* position inside the bounding rectangle (each building's position plus
\* and minus its width and depth) of the buildings listed in the same
\* record, whatever other chunks are in the arrays.
C18_InsideChunkBounds ==
    \A k \in DOMAIN made :
        \A v \in DOMAIN made[k].volumes :
            InBoundsOf(made[k].volumes[v].basePosition,
                       CityBounds(made[k].buildings))

\* C19: the beam path adds nothing. In every reachable state every light
\* volume is a ground cube (isCone = FALSE), every generation appended no
\* more volumes than addCubeLightVolumes sampled points, and generateCity
\* leaves the array of light volumes empty.
C19_OnlyGroundCubes ==
    /\ \A i \in DOMAIN lightVolumes_ : lightVolumes_[i].isCone = FALSE
    /\ \A k \in DOMAIN made :
          /\ \A v \in DOMAIN made[k].volumes :
                made[k].volumes[v].isCone = FALSE
          /\ Len(made[k].volumes) <= made[k].samples
    /\ last.op = "generateCity" => lightVolumes_ = << >>

\* a chunk was generated with a building of 40 or more (where the beam path
\* would have acted) and ground volumes were added
C19_Witness ==
    /\ last.op = "generateChunk"
    /\ lightVolumes_ # << >>
    /\ \E i \in DOMAIN buildings_ : buildings_[i].size[2] >= 40000

\* C20: for every chunk record with B buildings the number N of neon
\* indices satisfies 2 * B <= N <= 9 * B, and the same holds of what each
\* generation appended.
C20_LightsPerBuilding ==
    /\ \A k \in DOMAIN chunkData_ :
          LET B == Len(chunkData_[k].buildingIndices)
              N == Len(chunkData_[k].neonIndices)
          IN  2 * B <= N /\ N <= 9 * B
    /\ \A k \in DOMAIN made :
          /\ 2 * Len(made[k].buildings) <= Len(made[k].neon)
          /\ Len(made[k].neon) <= 9 * Len(made[k].buildings)

\* a record with at least one building whose number of lights lies
\* strictly between the two ends
C20_Witness ==
    \E k \in DOMAIN chunkData_ :
        LET B == Len(chunkData_[k].buildingIndices)
            N == Len(chunkData_[k].neonIndices)
        IN  B >= 1 /\ 2 * B < N /\ N < 9 * B

\* the part at index j of the list has a parent one level below it: the
\* nearest part before it with a lower detail level has the level just
\* below
HasParentOneBelow(parts, j) ==
    \E i \in 1..(j - 1) :
        /\ parts[i].detailLevel = parts[j].detailLevel - 1
        /\ \A m \in (i + 1)..(j - 1) :
               parts[m].detailLevel >= parts[j].detailLevel

\* C21: in every building the first part is the trunk, with detail level
\* 0, relative position (0,0,0) and the size of the building; it is the
\* only part of level 0; every other part has the detail level of its
\* parent plus one; no part has a detail level above 2.
C21_DepthBounded ==
    \A n \in DOMAIN buildings_ :
        LET parts == buildings_[n].parts
        IN  /\ Len(parts) >= 1
            /\ parts[1].detailLevel = 0
            /\ parts[1].position = << 0, 0, 0 >>
            /\ parts[1].size = buildings_[n].size
            /\ \A j \in 2..Len(parts) :
                  /\ parts[j].detailLevel \in {1, 2}
                  /\ HasParentOneBelow(parts, j)

\* a building has branches of both levels
C21_Witness ==
    \E n \in DOMAIN buildings_ :
        /\ \E j \in DOMAIN buildings_[n].parts :
               buildings_[n].parts[j].detailLevel = 1
        /\ \E j \in DOMAIN buildings_[n].parts :
               buildings_[n].parts[j].detailLevel = 2

\* C22: while a building is synthesized no parent part is read through a
\* reference into building.parts that was taken before a later append
\* reallocated the list: no generation of a chunk made such a read.
C22_NoDanglingParentRead ==
    \A k \in DOMAIN made : ~made[k].stale

\* C23: a generateChunk call for a coordinate without a record only
\* appends.  Every entry of the three arrays keeps its index and its
\* value, the records of all other chunks are unchanged, one record is
\* added for the coordinate of the call, and the configuration is
\* unchanged.
C23_AppendOnly ==
    [][ Creates =>
          /\ IsPrefix(buildings_, buildings_')
          /\ IsPrefix(neonLights_, neonLights_')
          /\ IsPrefix(lightVolumes_, lightVolumes_')
          /\ DOMAIN chunkData_' = DOMAIN chunkData_ \cup {last'.key}
          /\ last'.key \notin DOMAIN chunkData_
          /\ \A k \in DOMAIN chunkData_ : chunkData_'[k] = chunkData_[k]
          /\ UNCHANGED << buildingDensity_, maxHeight_ >> ]_vars

\* a record was created while the arrays held entries and another chunk
\* had a record, and entries were appended
C23_Witness ==
    /\ last.op = "generateChunk" /\ ~last.existed
    /\ last.nb > 0 /\ last.nn > 0 /\ last.nv > 0
    /\ last.keys # {}
    /\ Len(buildings_) > last.nb

\* the int product a * b does not fit 32 bits (b is one of the primes)
ProductOverflows(a, b) == a # 0 /\ b > 2147483647 \div Abs(a)

\* one of the three products of the seed of chunk k with base seed
\* baseSeed does not fit an int
SeedOverflows(baseSeed, k) ==
    \/ ProductOverflows(baseSeed, 73856093)
    \/ ProductOverflows(k[1], 19349663)
    \/ ProductOverflows(k[2], 83492791)

\* C24: the chunk seed is defined for every int input: no generateChunk
\* call computed its seed with an int product that overflows.
C24_SeedDefined ==
    \A k \in DOMAIN made : ~SeedOverflows(made[k].seed, k)

\* C26: every height generateHeight returns, and so the height of every
\* trunk, lies between the minimum height and the maximum height that were
\* configured when the chunk was generated.
C26_HeightInRange ==
    \A k \in DOMAIN made :
        \A n \in DOMAIN made[k].buildings :
            /\ made[k].cfg.minHeight <= made[k].buildings[n].size[2]
            /\ made[k].buildings[n].size[2] <= made[k].cfg.maxHeight

\* C27: the buildings (position, size, colour, parts) and the neon lights
\* a generateChunk call appended depend only on the seed, the coordinate
\* and the configuration: they are those the same call makes on a newly
\* constructed generator, whatever was generated, removed or cleared
\* before and whatever state the random stream was left in.
C27_DependsOnArgumentsOnly ==
    \A k \in DOMAIN made :
        /\ made[k].buildings = fresh[k].buildings
        /\ made[k].neon = fresh[k].neon

\* the set of the elements of a list
ElementsOf(list) == { list[i] : i \in DOMAIN list }

AlongWall(light, b, p) ==
    IF light.face < 2
    THEN light.position[1] - (b.position[1] + p.position[1])
    ELSE light.position[3] - (b.position[3] + p.position[3])

UpWall(light, b, p) == light.position[2] - (b.position[2] + p.position[2])

\* a <= b up to the rounding of the fixed-point products that made them
\* (each product is cut to a multiple of 1/S; the sides are doubled)
AtMost(a, b) == a <= b + 2

\* the rectangle of the light lies inside the wall of part p: the
\* inequalities of C29, each multiplied by 2
InsideWall(light, b, p) ==
    /\ AtMost(2 * Abs(AlongWall(light, b, p)) + light.width,
              WallWidth(p, light.face))
    /\ AtMost(light.height, 2 * UpWall(light, b, p))
    /\ AtMost(2 * UpWall(light, b, p), 2 * p.size[2] - light.height)

\* C29: every neon light lies in the plane of a face of a part of a
\* building, 0.05 outside it, and its rectangle lies inside that wall:
\* |xOffset| + width/2 <= wallWidth/2 and
\* height/2 <= yOffset <= wallHeight - height/2.
C29_InsideWall ==
    \A i \in DOMAIN neonLights_ :
        \E n \in DOMAIN buildings_ :
            \E j \in DOMAIN buildings_[n].parts :
                /\ OnFace(neonLights_[i], buildings_[n],
                          buildings_[n].parts[j])
                /\ InsideWall(neonLights_[i], buildings_[n],
                              buildings_[n].parts[j])

\* the number of parts of the list with detail level d
CountLevel(parts, d) ==
    Cardinality({ j \in DOMAIN parts : parts[j].detailLevel = d })

\* the number of parts that follow the part at index j up to the next part
\* of its own level or a lower one.  The two parts of a pair are pushed
\* before the children of either, so for the second part of a level-1 pair
\* these are the children of the two parts of the pair.
Following(parts, j) ==
    Cardinality({ m \in (j + 1)..Len(parts) :
                    \A i \in (j + 1)..m :
                        parts[i].detailLevel > parts[j].detailLevel })

\* the part at index j is the second part of a level-1 pair
SecondOfPair(parts, j) ==
    /\ j > 2 /\ j % 2 = 1
    /\ parts[j].detailLevel = 1 /\ parts[j - 1].detailLevel = 1

\* C30: the trunk gets 0 to 3 sibling pairs, a level-1 branch 0 to 2
\* pairs, a level-2 branch none.  Every building has an odd number of
\* parts, at least 1 and at most 31: one trunk, an even number of at most
\* 6 level-1 parts and an even number of at most 24 level-2 parts, at most
\* 8 of them under the two parts of a level-1 pair.
C30_BranchCounts ==
    \A n \in DOMAIN buildings_ :
        LET parts == buildings_[n].parts
        IN  /\ Len(parts) % 2 = 1
            /\ Len(parts) >= 1 /\ Len(parts) <= 31
            /\ CountLevel(parts, 0) = 1
            /\ CountLevel(parts, 1) \in {0, 2, 4, 6}
            /\ CountLevel(parts, 2) % 2 = 0
            /\ CountLevel(parts, 2) <= 4 * CountLevel(parts, 1)
            /\ \A j \in DOMAIN parts :
                  /\ SecondOfPair(parts, j)
                        => Following(parts, j) \in {0, 2, 4, 6, 8}
                  /\ parts[j].detailLevel = 2 => Following(parts, j) = 0

\* a building has three pairs under its trunk, and a building has two or
\* more pairs under a level-1 pair
C30_Witness ==
    /\ \E n \in DOMAIN buildings_ :
          CountLevel(buildings_[n].parts, 1) = 6
    /\ \E n \in DOMAIN buildings_ :
          \E j \in DOMAIN buildings_[n].parts :
              /\ buildings_[n].parts[j].detailLevel = 1
              /\ Following(buildings_[n].parts, j) >= 4

\* what the generateChunk call of chunk k with the given seed and
\* configuration appends on a newly constructed generator
Alone(k, seed, cfg, ub) ==
    Appended(Constructed, GenChunk(Constructed, k[1], k[2], seed, cfg, ub),
             seed, cfg)

\* the buildings and neon lights in e are those in ref, when neither was
\* made with a read through a dangling reference
SameUnlessDangling(e, ref) ==
    (~e.stale /\ ~ref.stale)
        => e.buildings = ref.buildings /\ e.neon = ref.neon

\* C25: two generateChunk calls for different chunks that are interleaved
\* on the same generator each draw from their own stream: the buildings
\* and the neon lights of each chunk are those the call makes when it runs
\* alone on a new generator.  Stated for the chunks generated without a
\* read through a dangling reference.
C25_OwnStream ==
    \A k \in DOMAIN made :
        \A ub \in UBOutcomes :
            SameUnlessDangling(made[k],
                               Alone(k, made[k].seed, made[k].cfg, ub))

=============================================================================
